---- MODULE Spec2Model ----
(***************************************************************************)
(* Terrain-analysis pipeline (scripts/compute_terrain_analysis.py) and the  *)
(* local forwarding proxy (scripts/gradle_proxy.py).                        *)
(*                                                                         *)
(* Numbers.  Elevations are whole numbers of map units and main() always    *)
(* passes cellsize=1.0, so a gradient is an integer numerator over the      *)
(* kernel divisor (8 or 6) and is kept as that numerator.  Arithmetic is    *)
(* exact (no floating-point rounding).  Angles are kept in half degrees,    *)
(* rounded down: every number the program compares an angle with (1, 20,    *)
(* 35, 45, 50, 90, 22.5 + 45k, 360) is a whole number of half degrees, so   *)
(* rounding down changes no comparison.  Grids are sequences of rows;       *)
(* model row r, column c is numpy's [r-1, c-1].                             *)
(***************************************************************************)
EXTENDS Integers, Sequences, FiniteSets, TLC

\* ------------------------------------------------------------- bounds
\* Largest grid height and width drawn for the input raster.
MaxDim == 4
\* Largest per-cell step of an input plane, in both directions.
MaxStep == 1
\* Largest base elevation and largest height of a single-cell bump.
MaxElev == 1
\* Largest number of recv() calls the proxy handler makes per read loop.
MaxChunks == 2

\* ------------------------------------------------------------ numbers
\* np.nan (cval of the padding, and whatever is computed from it).
NaN == -100000
\* Half-degree units per degree.
Unit == 2
Deg(d) == d * Unit
\* The value the source writes as -1 (degrees) for flat cells.
FlatSentinel == Deg(-1)
\* Scale of TanTable and of TanSqTable.
TanScale == 100000
TanSqScale == 120000

\* ceil(tan(h/2 degrees) * TanScale) for h = 0..179, at index h+1.
TanTable ==
  << 0, 873, 1746, 2619, 3493, 4367, 5241, 6117, 6993, 7871,
     8749, 9629, 10511, 11394, 12279, 13166, 14055, 14946, 15839, 16735,
     17633, 18534, 19439, 20346, 21256, 22170, 23087, 24008, 24933, 25862,
     26795, 27733, 28675, 29622, 30574, 31530, 32492, 33460, 34433, 35412,
     36398, 37389, 38387, 39392, 40403, 41422, 42448, 43482, 44523, 45573,
     46631, 47698, 48774, 49859, 50953, 52057, 53171, 54296, 55431, 56578,
     57736, 58905, 60087, 61281, 62487, 63708, 64941, 66189, 67451, 68729,
     70021, 71330, 72655, 73997, 75356, 76733, 78129, 79544, 80979, 82434,
     83910, 85409, 86929, 88473, 90041, 91634, 93252, 94897, 96569, 98270,
     100000, 101761, 103554, 105379, 107237, 109131, 111062, 113030, 115037, 117085,
     119176, 121310, 123490, 125718, 127995, 130323, 132705, 135143, 137639, 140195,
     142815, 145501, 148257, 151084, 153987, 156969, 160034, 163186, 166428, 169767,
     173206, 176750, 180405, 184178, 188073, 192099, 196262, 200569, 205031, 209655,
     214451, 219430, 224604, 229985, 235586, 241422, 247509, 253865, 260509, 267463,
     274748, 282392, 290422, 298869, 307769, 317160, 327086, 337595, 348742, 360589,
     373206, 386672, 401079, 416530, 433148, 451071, 470464, 491516, 514456, 539552,
     567129, 597577, 631376, 669116, 711537, 759576, 814435, 877689, 951437, 1038540,
     1143006, 1270621, 1430067, 1634986, 1908114, 2290377, 2863626, 3818846, 5728997, 11458866 >>

\* ceil(tan(h/2 degrees)^2 * TanSqScale) for h = 0..179, at index h+1.
TanSqTable ==
  << 0, 10, 37, 83, 147, 229, 330, 449, 587, 744,
     919, 1113, 1326, 1558, 1810, 2080, 2371, 2681, 3011, 3361,
     3731, 4123, 4535, 4968, 5422, 5898, 6397, 6917, 7460, 8026,
     8616, 9230, 9867, 10530, 11217, 11930, 12669, 13435, 14228, 15048,
     15897, 16775, 17683, 18620, 19589, 20589, 21622, 22688, 23788, 24923,
     26094, 27301, 28546, 29831, 31154, 32519, 33926, 35377, 36872, 38412,
     40000, 41637, 43325, 45063, 46856, 48704, 50608, 52572, 54596, 56683,
     58835, 61055, 63344, 65706, 68142, 70655, 73249, 75927, 78691, 81544,
     84491, 87535, 90680, 93929, 97288, 100760, 104351, 108065, 111907, 115884,
     120000, 124263, 128679, 133255, 137997, 142915, 148016, 153308, 158802, 164507,
     170434, 176593, 182997, 189658, 196591, 203808, 211326, 219162, 227332, 235856,
     244753, 254047, 263759, 273915, 284543, 295670, 307329, 319553, 332380, 345848,
     360000, 374885, 390551, 407055, 424456, 442821, 462221, 482735, 504450, 527460,
     551870, 577795, 605362, 634714, 666005, 699412, 735127, 773368, 814379, 858433,
     905836, 956939, 1012133, 1071869, 1136657, 1207082, 1283818, 1367640, 1459448, 1560288,
     1671385, 1794177, 1930364, 2081967, 2251402, 2441579, 2656026, 2899053, 3175973, 3493393,
     3859613, 4285172, 4783615, 5372589, 6075419, 6923458, 7959646, 9244051, 10862776, 12942777,
     15677532, 19373717, 24541087, 32078133, 43690774, 62949898, 98404201, 175003011, 393856765, 1575667049 >>

\* floor, in half degrees, of degrees(arctan(y/x)) for x > 0, y >= 0: the
\* largest h of 0..179 with tan(h/2) <= y/x.  The table increases, so that is
\* the number of h >= 1 that satisfy it.
ArctanFloor(y, x) ==
  Cardinality({h \in 1..179 : TanTable[h + 1] <= (y * TanScale) \div x})

\* The same, rounded up: tan is rational only at 0 and 45 degrees.
ArctanCeil(y, x) ==
  IF y = 0 \/ y = x THEN ArctanFloor(y, x) ELSE ArctanFloor(y, x) + 1

Abs(n) == IF n < 0 THEN 0 - n ELSE n

\* floor, in half degrees, of np.degrees(np.arctan2(y, x)), y = grad_y and
\* x = -grad_x.  A zero gradient sum is +0.0, so x = -grad_x is -0.0 when
\* grad_x is zero and arctan2(+0.0, -0.0) is pi.
Arctan2Deg(y, x) ==
  CASE x = 0 /\ y = 0 -> Deg(180)
    [] x = 0 /\ y > 0 -> Deg(90)
    [] x = 0 /\ y < 0 -> Deg(-90)
    [] x > 0 /\ y >= 0 -> ArctanFloor(y, x)
    [] x > 0 /\ y < 0 -> 0 - ArctanCeil(Abs(y), x)
    [] x < 0 /\ y >= 0 -> Deg(180) - ArctanCeil(y, Abs(x))
    [] OTHER -> ArctanFloor(Abs(y), Abs(x)) - Deg(180)

\* np.degrees(np.arctan(np.sqrt(gx**2 + gy**2))) for gradients gx/div, gy/div:
\* the largest h of 0..179 with tan(h/2)^2 <= (gx^2 + gy^2) / div^2, counted
\* as in ArctanFloor.
SlopeDeg(gx, gy, div) ==
  IF gx = NaN \/ gy = NaN THEN NaN
  ELSE Cardinality({h \in 1..179 :
         TanSqTable[h + 1] <= ((gx * gx + gy * gy) * TanSqScale) \div (div * div)})

\* -------------------------------------------------------------- grids
Height(g) == Len(g)
Width(g) == IF Len(g) = 0 THEN 0 ELSE Len(g[1])
InGrid(g, r, c) == r >= 1 /\ r <= Height(g) /\ c >= 1 /\ c <= Width(g)
\* The outermost ring: row 0, row H-1, column 0, column W-1.
OnBorder(g, r, c) == r = 1 \/ r = Height(g) \/ c = 1 \/ c = Width(g)
\* A value for "not computed yet".
NoGrid == << >>

\* ------------------------------------------------------------ kernels
cellsize == 1
ZtKernelX == << <<-1, 0, 1>>, <<-2, 0, 2>>, <<-1, 0, 1>> >>
ZtKernelY == << <<-1, -2, -1>>, <<0, 0, 0>>, <<1, 2, 1>> >>
HornKernelX == << <<-1, 0, 1>>, <<-1, 0, 1>>, <<-1, 0, 1>> >>
HornKernelY == << <<-1, -1, -1>>, <<0, 0, 0>>, <<1, 1, 1>> >>
SlopeAlgorithms == {"zevenbergen_thorne", "horn"}
KernelX(algorithm) == IF algorithm = "zevenbergen_thorne" THEN ZtKernelX ELSE HornKernelX
KernelY(algorithm) == IF algorithm = "zevenbergen_thorne" THEN ZtKernelY ELSE HornKernelY
KernelDiv(algorithm) == IF algorithm = "zevenbergen_thorne" THEN 8 * cellsize ELSE 6 * cellsize

\* scipy.ndimage.convolve(dtm, kernel, mode='constant', cval=np.nan), as the
\* numerator over the kernel's divisor.  convolve mirrors the kernel: weight
\* kernel[dr+1][dc+1] multiplies input[r-dr][c-dc].  Only nonzero weights are
\* visited; one that falls outside the grid reads the padding, np.nan.
ConvolveCell(dtm, kernel, r, c) ==
  LET Term(dr, dc) ==
        IF kernel[dr + 2][dc + 2] = 0 THEN 0
        ELSE dtm[r - dr][c - dc] * kernel[dr + 2][dc + 2]
  IN IF \E dr \in -1..1, dc \in -1..1 :
          kernel[dr + 2][dc + 2] # 0 /\ ~InGrid(dtm, r - dr, c - dc)
     THEN NaN
     ELSE Term(-1, -1) + Term(-1, 0) + Term(-1, 1)
        + Term(0, -1) + Term(0, 0) + Term(0, 1)
        + Term(1, -1) + Term(1, 0) + Term(1, 1)

convolve(dtm, kernel) ==
  [r \in 1..Height(dtm) |-> [c \in 1..Width(dtm) |-> ConvolveCell(dtm, kernel, r, c)]]

\* NumPy comparisons: every comparison with np.nan is False.
Lt(a, b) == a # NaN /\ b # NaN /\ a < b
Ge(a, b) == a # NaN /\ b # NaN /\ a >= b

\* ------------------------------------------------------ compute_slope
compute_slope(dtm, algorithm) ==
  LET grad_x_ == convolve(dtm, KernelX(algorithm))
      grad_y_ == convolve(dtm, KernelY(algorithm))
  IN [r \in 1..Height(dtm) |-> [c \in 1..Width(dtm) |->
        SlopeDeg(grad_x_[r][c], grad_y_[r][c], KernelDiv(algorithm))]]

\* ----------------------------------------------------- compute_aspect
\* aspect_deg = (degrees(arctan2(grad_y, -grad_x)) + 360) % 360
NormalizedAspect(gx, gy) ==
  IF gx = NaN \/ gy = NaN THEN NaN
  ELSE (Arctan2Deg(gy, 0 - gx) + Deg(360)) % Deg(360)

\* Mutant: the two value arguments of np.where exchanged.
AspectCellSwapped(gx, gy) ==
  IF Lt(SlopeDeg(gx, gy, 8 * cellsize), Deg(1)) THEN NormalizedAspect(gx, gy)
  ELSE FlatSentinel

\* np.where(slope_deg < 1.0, -1, aspect_deg)
AspectCell(gx, gy) ==
  IF Lt(SlopeDeg(gx, gy, 8 * cellsize), Deg(1)) THEN FlatSentinel
  ELSE NormalizedAspect(gx, gy)

compute_aspect(dtm) ==
  LET grad_x_ == convolve(dtm, ZtKernelX)
      grad_y_ == convolve(dtm, ZtKernelY)
  IN [r \in 1..Height(dtm) |-> [c \in 1..Width(dtm) |->
        AspectCell(grad_x_[r][c], grad_y_[r][c])]]

\* -------------------------------------------------------- compute_tri
RECURSIVE SeqSum(_)
SeqSum(s) == IF s = << >> THEN 0 ELSE Head(s) + SeqSum(Tail(s))

\* A ruggedness value is the real number sqrt(sq / n), kept as the pair.
\* np.zeros_like leaves 0 = sqrt(0 / 1).
TriZero == [sq |-> 0, n |-> 1]

\* np.sqrt(np.mean(diffs))
SqrtMean(diffs) == [sq |-> SeqSum(diffs), n |-> Len(diffs)]

\* Mutant: the last neighbour repeats dtm[i+1, j] instead of dtm[i+1, j+1].
TriNeighborsDup(dtm, i, j) ==
  << dtm[i-1][j-1], dtm[i-1][j], dtm[i-1][j+1],
     dtm[i][j-1],                dtm[i][j+1],
     dtm[i+1][j-1], dtm[i+1][j], dtm[i+1][j] >>

TriNeighbors(dtm, i, j) ==
  << dtm[i-1][j-1], dtm[i-1][j], dtm[i-1][j+1],
     dtm[i][j-1],                dtm[i][j+1],
     dtm[i+1][j-1], dtm[i+1][j], dtm[i+1][j+1] >>

TriCell(dtm, i, j) ==
  LET center == dtm[i][j]
      neighbors == TriNeighbors(dtm, i, j)
      diffs == [k \in 1..Len(neighbors) |->
                  (center - neighbors[k]) * (center - neighbors[k])]
  IN SqrtMean(diffs)

\* range(1, shape - 1) is the model's 2..shape-1.
TriVisited(dtm, i, j) ==
  i \in 2..(Height(dtm) - 1) /\ j \in 2..(Width(dtm) - 1)

compute_tri(dtm) ==
  [i \in 1..Height(dtm) |-> [j \in 1..Width(dtm) |->
     IF TriVisited(dtm, i, j) THEN TriCell(dtm, i, j) ELSE TriZero]]

\* ----------------------------------------------------------- colorize
Black == <<0, 0, 0>>
Gray == <<128, 128, 128>>
ColorizeSchemes == {"skitour", "climbing"}

\* bins, in degrees
SlopeBins(algorithm) ==
  IF algorithm = "skitour" THEN <<0, 20, 45, 90>> ELSE <<0, 20, 35, 50, 90>>

SlopeColors(algorithm) ==
  IF algorithm = "skitour"
  THEN << <<0, 200, 0>>, <<255, 255, 0>>, <<255, 0, 0>> >>
  ELSE << <<0, 0, 255>>, <<0, 255, 0>>, <<255, 255, 0>>, <<255, 0, 0>> >>

\* enumerate(zip(bins[:-1], bins[1:])): <<lower, upper, colour>>, half degrees
SlopeRanges(algorithm) ==
  [i \in 1..Len(SlopeColors(algorithm)) |->
     << Deg(SlopeBins(algorithm)[i]), Deg(SlopeBins(algorithm)[i + 1]),
        SlopeColors(algorithm)[i] >>]

\* Mutant: the wrap-around range (337.5, 360) left out.
AspectDirectionsNoWrap ==
  << <<0, 45, <<255, 0, 0>> >>,
     <<45, 135, <<255, 255, 0>> >>,
     <<135, 225, <<0, 255, 0>> >>,
     <<225, 315, <<0, 255, 255>> >>,
     <<315, 405, <<0, 0, 255>> >>,
     <<405, 495, <<255, 0, 255>> >>,
     <<495, 585, <<255, 255, 255>> >>,
     <<585, 675, <<255, 165, 0>> >> >>

\* directions, in half degrees: 22.5 degrees is 45, 67.5 is 135, ...
AspectDirections ==
  << <<0, 45, <<255, 0, 0>> >>,
     <<45, 135, <<255, 255, 0>> >>,
     <<135, 225, <<0, 255, 0>> >>,
     <<225, 315, <<0, 255, 255>> >>,
     <<315, 405, <<0, 0, 255>> >>,
     <<405, 495, <<255, 0, 255>> >>,
     <<495, 585, <<255, 255, 255>> >>,
     <<585, 675, <<255, 165, 0>> >>,
     <<675, 720, <<255, 0, 0>> >> >>

\* Mutant: a closed upper end, (array >= lower) & (array <= upper).
InRangeClosed(v, lower, upper) == Ge(v, lower) /\ (Lt(v, upper) \/ v = upper)

\* mask = (array >= lower) & (array < upper)
InRange(v, lower, upper) == Ge(v, lower) /\ Lt(v, upper)

\* The loop over the ranges, in order: a cell in the mask is overwritten.
RECURSIVE PaintRanges(_, _, _, _)
PaintRanges(v, ranges, i, rgb) ==
  IF i > Len(ranges) THEN rgb
  ELSE PaintRanges(v, ranges, i + 1,
         IF InRange(v, ranges[i][1], ranges[i][2]) THEN ranges[i][3] ELSE rgb)

SlopeColor(v, algorithm) == PaintRanges(v, SlopeRanges(algorithm), 1, Black)

colorize_slope(slope_array, algorithm) ==
  [r \in 1..Height(slope_array) |-> [c \in 1..Width(slope_array) |->
     SlopeColor(slope_array[r][c], algorithm)]]

\* flat_mask = aspect_array == -1, applied after the loop
AspectColor(v) ==
  LET rgb == PaintRanges(v, AspectDirections, 1, Black)
  IN IF v # NaN /\ v = FlatSentinel THEN Gray ELSE rgb

colorize_aspect(aspect_array) ==
  [r \in 1..Height(aspect_array) |-> [c \in 1..Width(aspect_array) |->
     AspectColor(aspect_array[r][c])]]

\* -------------------------------------------------------- save_raster
DefaultNodata == -9999
AspectNodata == -1

\* Mutant: the 2-D branch does not reset count.
ProfileUpdateKeepsCount(profile, ndim, nodata) ==
  IF ndim = 2
  THEN [profile EXCEPT !.dtype = "float32", !.nodata = <<nodata>>]
  ELSE [profile EXCEPT !.dtype = "uint8", !.count = 3, !.nodata = << >>]

\* profile.update(...) of the branch array.ndim selects; nodata is << >> for
\* None and <<value>> otherwise.
ProfileUpdate(profile, ndim, nodata) ==
  IF ndim = 2
  THEN [profile EXCEPT !.dtype = "float32", !.count = 1, !.nodata = <<nodata>>]
  ELSE [profile EXCEPT !.dtype = "uint8", !.count = 3, !.nodata = << >>]

\* What rasterio.open(output_path, 'w', **profile) and dst.write leave on disk.
Written(array, profile, ndim, nodata) ==
  [profile |-> ProfileUpdate(profile, ndim, nodata),
   bands |-> IF ndim = 2 THEN 1 ELSE 3,
   data |-> array]

\* ============================================================== state
VARIABLES
  pc,          \* main(): the statement about to run
  args,        \* main(): the command line as given to parse_args
  dtm,         \* main(): the loaded elevation grid
  src_band,    \* band 1 of the input raster as load_dtm read it
  profile,     \* main(): the one profile dict every save_raster call updates
  grad_x,      \* compute_slope / compute_aspect: grad_x of the last call
  grad_y,      \* compute_slope / compute_aspect: grad_y of the last call
  slope,       \* main(): slope
  aspect,      \* main(): aspect
  aspect_rgb,  \* main(): aspect_rgb
  slope_rgb,   \* main(): slope_rgb
  tri,         \* main(): tri
  stored,      \* the output directory: file name -> what was written
  c_pc,        \* a colorize_* call on its own: "call", "returned", "raised"
  c_kind,      \* which function is called: "slope" or "aspect"
  c_array,     \* its array argument
  c_scheme,    \* colorize_slope's algorithm argument
  c_rgb,       \* its return value
  h_pc,        \* handle_client: the statement about to run
  client,      \* client_sock: "open" or "closed"
  upstream,    \* upstream: "none", "open" or "closed"
  request,     \* [chunks, complete, method]: what the request loop has read
  resp,        \* [chunks, complete, ok]: what the response loop has read
  fwd,         \* relay(): the two forward threads, "idle", "running", "done"
  joined,      \* relay(): how many join() calls have returned
  shut_wr      \* sockets whose write side a forward thread has shut down

terrainVars ==
  <<pc, args, dtm, src_band, profile, grad_x, grad_y, slope, aspect,
    aspect_rgb, slope_rgb, tri, stored>>
colorVars == <<c_pc, c_kind, c_array, c_scheme, c_rgb>>
proxyVars == <<h_pc, client, upstream, request, resp, fwd, joined, shut_wr>>
vars == <<terrainVars, colorVars, proxyVars>>

\* ============================================================= main()
\* The raster inputs: planes z0 + a*row + b*column, and level ground with one
\* raised cell.
Plane(h, w, a, b, z0) ==
  [r \in 1..h |-> [c \in 1..w |-> z0 + a * (r - 1) + b * (c - 1)]]
Bumped(h, w, br, bc, e) ==
  [r \in 1..h |-> [c \in 1..w |-> IF r = br /\ c = bc THEN e ELSE 0]]
DtmInputs ==
  UNION { { Plane(h, w, a, b, z0) :
              a \in (0 - MaxStep)..MaxStep, b \in (0 - MaxStep)..MaxStep,
              z0 \in 0..MaxElev }
          \cup { Bumped(h, w, br, bc, e) :
              br \in 1..h, bc \in 1..w, e \in 1..MaxElev }
        : h \in 1..MaxDim, w \in 1..MaxDim }

\* src.profile of the input raster: its own dtype, band count and nodata.
SrcProfiles ==
  { [dtype |-> "float32", count |-> 1, nodata |-> <<DefaultNodata>>],
    [dtype |-> "int16", count |-> 1, nodata |-> << >>] }

\* The command line: names as typed, whether the --dtm path exists, the flags.
ArgSpace ==
  [dtm_exists : BOOLEAN,
   slope_algorithm : SlopeAlgorithms \cup {"bogus"},
   colorize_slope : ColorizeSchemes \cup {"bogus"},
   skip_tri : BOOLEAN,
   skip_aspect : BOOLEAN]

\* Mutant: --colorize-slope declared without choices.
ChoicesOkSlopeOnly(a) == a.slope_algorithm \in {"zevenbergen_thorne", "horn"}

\* parse_args(): choices=[...] of --slope-algorithm and of --colorize-slope
ChoicesOk(a) ==
  /\ a.slope_algorithm \in {"zevenbergen_thorne", "horn"}
  /\ a.colorize_slope \in {"skitour", "climbing"}

NoProfile == [dtype |-> "none", count |-> 0, nodata |-> << >>]

TerrainIdle ==
  /\ pc = "idle"
  /\ args = [dtm_exists |-> FALSE, slope_algorithm |-> "zevenbergen_thorne",
             colorize_slope |-> "skitour", skip_tri |-> FALSE,
             skip_aspect |-> FALSE]
  /\ dtm = NoGrid /\ src_band = NoGrid /\ profile = NoProfile
  /\ grad_x = NoGrid /\ grad_y = NoGrid
  /\ slope = NoGrid /\ aspect = NoGrid
  /\ aspect_rgb = NoGrid /\ slope_rgb = NoGrid /\ tri = NoGrid
  /\ stored = << >>
ColorIdle ==
  /\ c_pc = "idle" /\ c_kind = "slope" /\ c_array = NoGrid
  /\ c_scheme = "skitour" /\ c_rgb = NoGrid
ProxyIdle ==
  /\ h_pc = "idle" /\ client = "closed" /\ upstream = "none"
  /\ request = [chunks |-> 0, complete |-> FALSE, method |-> "none"]
  /\ resp = [chunks |-> 0, complete |-> FALSE, ok |-> FALSE]
  /\ fwd = <<"idle", "idle">> /\ joined = 0 /\ shut_wr = {}

Init ==
  /\ pc = "parse_args"
  /\ args \in ArgSpace
  /\ dtm = NoGrid /\ src_band = NoGrid /\ profile = NoProfile
  /\ grad_x = NoGrid /\ grad_y = NoGrid
  /\ slope = NoGrid /\ aspect = NoGrid
  /\ aspect_rgb = NoGrid /\ slope_rgb = NoGrid /\ tri = NoGrid
  /\ stored = << >>
  /\ ColorIdle /\ ProxyIdle

\* A step of main() touches nothing of the other two programs.
TerrainOnly == UNCHANGED <<colorVars, proxyVars>>

\* save_raster(array, profile, output_dir / name, nodata) as main calls it
SaveRaster(name, array, ndim, nodata, next) ==
  /\ stored' = stored @@ (name :> Written(array, profile, ndim, nodata))
  /\ profile' = ProfileUpdate(profile, ndim, nodata)
  /\ pc' = next

\* args = parser.parse_args(): an argument outside its choices ends the run
ParseArgs ==
  /\ pc = "parse_args"
  /\ TerrainOnly
  /\ pc' = IF ChoicesOk(args) THEN "validate" ELSE "exit_usage"
  /\ UNCHANGED <<args, dtm, src_band, profile, grad_x, grad_y, slope, aspect,
                 aspect_rgb, slope_rgb, tri, stored>>

\* if not dtm_path.exists(): sys.exit(1); output_dir.mkdir(...)
ValidateInput ==
  /\ pc = "validate"
  /\ TerrainOnly
  /\ pc' = IF args.dtm_exists THEN "load" ELSE "exit_missing"
  /\ UNCHANGED <<args, dtm, src_band, profile, grad_x, grad_y, slope, aspect,
                 aspect_rgb, slope_rgb, tri, stored>>

\* dtm, profile = load_dtm(str(dtm_path))
LoadDtm ==
  /\ pc = "load"
  /\ TerrainOnly
  /\ \E g \in DtmInputs, p \in SrcProfiles :
       /\ dtm' = g
       /\ src_band' = g
       /\ profile' = p
  /\ pc' = "slope"
  /\ UNCHANGED <<args, grad_x, grad_y, slope, aspect, aspect_rgb, slope_rgb,
                 tri, stored>>

\* slope = compute_slope(dtm, cellsize=1.0, algorithm=args.slope_algorithm)
ComputeSlope ==
  /\ pc = "slope"
  /\ TerrainOnly
  /\ IF args.slope_algorithm \in SlopeAlgorithms
     THEN /\ grad_x' = convolve(dtm, KernelX(args.slope_algorithm))
          /\ grad_y' = convolve(dtm, KernelY(args.slope_algorithm))
          /\ slope' = compute_slope(dtm, args.slope_algorithm)
          /\ pc' = "save_slope"
     ELSE /\ pc' = "raised"
          /\ UNCHANGED <<grad_x, grad_y, slope>>
  /\ UNCHANGED <<args, dtm, src_band, profile, aspect, aspect_rgb, slope_rgb,
                 tri, stored>>

\* save_raster(slope, profile, 'slope_degrees.tif'); if not args.skip_aspect:
SaveSlope ==
  /\ pc = "save_slope"
  /\ TerrainOnly
  /\ SaveRaster("slope_degrees", slope, 2, DefaultNodata,
                IF args.skip_aspect THEN "colorize_slope" ELSE "aspect")
  /\ UNCHANGED <<args, dtm, src_band, grad_x, grad_y, slope, aspect,
                 aspect_rgb, slope_rgb, tri>>

\* aspect = compute_aspect(dtm, cellsize=1.0)
ComputeAspect ==
  /\ pc = "aspect"
  /\ TerrainOnly
  /\ grad_x' = convolve(dtm, ZtKernelX)
  /\ grad_y' = convolve(dtm, ZtKernelY)
  /\ aspect' = compute_aspect(dtm)
  /\ pc' = "save_aspect"
  /\ UNCHANGED <<args, dtm, src_band, profile, slope, aspect_rgb, slope_rgb,
                 tri, stored>>

\* save_raster(aspect, profile, 'aspect_degrees.tif', nodata=-1)
SaveAspect ==
  /\ pc = "save_aspect"
  /\ TerrainOnly
  /\ SaveRaster("aspect_degrees", aspect, 2, AspectNodata, "colorize_aspect")
  /\ UNCHANGED <<args, dtm, src_band, grad_x, grad_y, slope, aspect,
                 aspect_rgb, slope_rgb, tri>>

\* aspect_rgb = colorize_aspect(aspect)
ColorizeAspect ==
  /\ pc = "colorize_aspect"
  /\ TerrainOnly
  /\ aspect_rgb' = colorize_aspect(aspect)
  /\ pc' = "save_aspect_rgb"
  /\ UNCHANGED <<args, dtm, src_band, profile, grad_x, grad_y, slope, aspect,
                 slope_rgb, tri, stored>>

\* save_raster(aspect_rgb, profile, 'aspect_colorized.tif')
SaveAspectRgb ==
  /\ pc = "save_aspect_rgb"
  /\ TerrainOnly
  /\ SaveRaster("aspect_colorized", aspect_rgb, 3, DefaultNodata, "colorize_slope")
  /\ UNCHANGED <<args, dtm, src_band, grad_x, grad_y, slope, aspect,
                 aspect_rgb, slope_rgb, tri>>

\* slope_rgb = colorize_slope(slope, algorithm=args.colorize_slope)
ColorizeSlope ==
  /\ pc = "colorize_slope"
  /\ TerrainOnly
  /\ IF args.colorize_slope \in ColorizeSchemes
     THEN /\ slope_rgb' = colorize_slope(slope, args.colorize_slope)
          /\ pc' = "save_slope_rgb"
     ELSE /\ pc' = "raised"
          /\ UNCHANGED slope_rgb
  /\ UNCHANGED <<args, dtm, src_band, profile, grad_x, grad_y, slope, aspect,
                 aspect_rgb, tri, stored>>

\* save_raster(slope_rgb, profile, 'slope_colorized.tif'); if not args.skip_tri:
SaveSlopeRgb ==
  /\ pc = "save_slope_rgb"
  /\ TerrainOnly
  /\ SaveRaster("slope_colorized", slope_rgb, 3, DefaultNodata,
                IF args.skip_tri THEN "done" ELSE "tri")
  /\ UNCHANGED <<args, dtm, src_band, grad_x, grad_y, slope, aspect,
                 aspect_rgb, slope_rgb, tri>>

\* tri = compute_tri(dtm)
ComputeTri ==
  /\ pc = "tri"
  /\ TerrainOnly
  /\ tri' = compute_tri(dtm)
  /\ pc' = "save_tri"
  /\ UNCHANGED <<args, dtm, src_band, profile, grad_x, grad_y, slope, aspect,
                 aspect_rgb, slope_rgb, stored>>

\* save_raster(tri, profile, 'tri.tif')
SaveTri ==
  /\ pc = "save_tri"
  /\ TerrainOnly
  /\ SaveRaster("tri", tri, 2, DefaultNodata, "done")
  /\ UNCHANGED <<args, dtm, src_band, grad_x, grad_y, slope, aspect,
                 aspect_rgb, slope_rgb, tri>>

Next ==
  \/ ParseArgs \/ ValidateInput \/ LoadDtm
  \/ ComputeSlope \/ SaveSlope
  \/ ComputeAspect \/ SaveAspect \/ ColorizeAspect \/ SaveAspectRgb
  \/ ColorizeSlope \/ SaveSlopeRgb
  \/ ComputeTri \/ SaveTri

Spec == Init /\ [][Next]_vars

\* ============================================ colorize_* on its own
\* A slope grid holds values of [0, 90] degrees or np.nan (the border ring);
\* arctan of a huge gradient (a nodata neighbour of -3.4e38) is 90.0 exactly.
ColorSlopeInputs == (0..Deg(90)) \cup {NaN}
\* An aspect grid holds values of [0, 360), the flat sentinel, or np.nan.
ColorAspectInputs == (0..(Deg(360) - 1)) \cup {FlatSentinel, NaN}

InitColor ==
  /\ TerrainIdle /\ ProxyIdle
  /\ c_pc = "call"
  /\ c_rgb = NoGrid
  /\ \/ /\ c_kind = "slope"
        /\ c_scheme \in ColorizeSchemes \cup {"bogus"}
        /\ \E v \in ColorSlopeInputs : c_array = << <<v>> >>
     \/ /\ c_kind = "aspect"
        /\ c_scheme = "skitour"
        /\ \E v \in ColorAspectInputs : c_array = << <<v>> >>

\* colorize_slope(slope_array, algorithm)
CallColorizeSlope ==
  /\ c_pc = "call" /\ c_kind = "slope"
  /\ IF c_scheme \in ColorizeSchemes
     THEN c_rgb' = colorize_slope(c_array, c_scheme) /\ c_pc' = "returned"
     ELSE c_rgb' = c_rgb /\ c_pc' = "raised"
  /\ UNCHANGED <<c_kind, c_array, c_scheme, terrainVars, proxyVars>>

\* colorize_aspect(aspect_array)
CallColorizeAspect ==
  /\ c_pc = "call" /\ c_kind = "aspect"
  /\ c_rgb' = colorize_aspect(c_array)
  /\ c_pc' = "returned"
  /\ UNCHANGED <<c_kind, c_array, c_scheme, terrainVars, proxyVars>>

NextColor == CallColorizeSlope \/ CallColorizeAspect

SpecColor == InitColor /\ [][NextColor]_vars

\* ==================================================== handle_client
InitProxy ==
  /\ TerrainIdle /\ ColorIdle
  /\ h_pc = "recv_request"
  /\ client = "open"
  /\ upstream = "none"
  /\ request = [chunks |-> 0, complete |-> FALSE, method |-> "none"]
  /\ resp = [chunks |-> 0, complete |-> FALSE, ok |-> FALSE]
  /\ fwd = <<"idle", "idle">>
  /\ joined = 0
  /\ shut_wr = {}

ProxyOnly == UNCHANGED <<terrainVars, colorVars>>

\* while b'\r\n\r\n' not in request: chunk = client_sock.recv(4096) ...
\* A chunk that leaves the header block open, one that closes it (its
\* first line names the method, or is blank), end of stream, or an error.
RecvRequest ==
  /\ h_pc = "recv_request"
  /\ ProxyOnly
  /\ \/ /\ request.chunks < MaxChunks
        /\ request' = [request EXCEPT !.chunks = @ + 1]
        /\ UNCHANGED <<h_pc, client>>
     \/ /\ \E m \in {"CONNECT", "GET", "blank"} :
             request' = [chunks |-> request.chunks + 1, complete |-> TRUE,
                         method |-> m]
        /\ h_pc' = "parse_request"
        /\ UNCHANGED client
     \/ /\ client' = "closed"
        /\ h_pc' = "finally"
        /\ UNCHANGED request
     \/ /\ h_pc' = "finally"
        /\ UNCHANGED <<request, client>>
  /\ UNCHANGED <<upstream, resp, fwd, joined, shut_wr>>

\* first_line = ...; method = first_line.split()[0]: IndexError on a blank line
ParseRequest ==
  /\ h_pc = "parse_request"
  /\ ProxyOnly
  /\ h_pc' = IF request.method = "blank" THEN "finally" ELSE "connect_upstream"
  /\ UNCHANGED <<client, upstream, request, resp, fwd, joined, shut_wr>>

\* upstream = socket.socket(...); upstream.connect(...): connected, or refused
ConnectUpstream ==
  /\ h_pc = "connect_upstream"
  /\ ProxyOnly
  /\ upstream' = "open"
  /\ \/ h_pc' = IF request.method = "CONNECT" THEN "send_connect" ELSE "send_plain"
     \/ h_pc' = "finally"
  /\ UNCHANGED <<client, request, resp, fwd, joined, shut_wr>>

\* target = first_line.split()[1]; upstream.send(connect_req): sent, or raised
SendConnect ==
  /\ h_pc = "send_connect"
  /\ ProxyOnly
  /\ \/ h_pc' = "recv_response"
     \/ h_pc' = "finally"
  /\ UNCHANGED <<client, upstream, request, resp, fwd, joined, shut_wr>>

\* while b'\r\n\r\n' not in resp: chunk = upstream.recv(4096); if not chunk: break
\* ok: whether b'200' is in the first line of what was read.
RecvResponse ==
  /\ h_pc = "recv_response"
  /\ ProxyOnly
  /\ \/ /\ resp.chunks < MaxChunks
        /\ resp' = [resp EXCEPT !.chunks = @ + 1]
        /\ UNCHANGED h_pc
     \/ /\ \E ok \in BOOLEAN :
             resp' = [chunks |-> resp.chunks + 1, complete |-> TRUE, ok |-> ok]
        /\ h_pc' = "send_response"
     \/ /\ \E ok \in BOOLEAN :
             /\ ok => resp.chunks > 0
             /\ resp' = [resp EXCEPT !.ok = ok]
        /\ h_pc' = "send_response"
     \/ /\ h_pc' = "finally"
        /\ UNCHANGED resp
  /\ UNCHANGED <<client, upstream, request, fwd, joined, shut_wr>>

\* client_sock.send(resp); if b'200' in resp.split(b'\r\n')[0]:
SendResponse ==
  /\ h_pc = "send_response"
  /\ ProxyOnly
  /\ \/ h_pc' = IF resp.ok THEN "relay" ELSE "refuse"
     \/ h_pc' = "finally"
  /\ UNCHANGED <<client, upstream, request, resp, fwd, joined, shut_wr>>

\* else: client_sock.close(); upstream.close()
Refuse ==
  /\ h_pc = "refuse"
  /\ ProxyOnly
  /\ client' = "closed"
  /\ upstream' = "closed"
  /\ h_pc' = "finally"
  /\ UNCHANGED <<request, resp, fwd, joined, shut_wr>>

\* relay(): t1.start(); t2.start()
RelayStart ==
  /\ h_pc = "relay"
  /\ ProxyOnly
  /\ fwd' = <<"running", "running">>
  /\ h_pc' = "join"
  /\ UNCHANGED <<client, upstream, request, resp, joined, shut_wr>>

\* forward(src, dst) leaves its loop (end of stream, or an error) and runs
\* its finally: dst.shutdown(socket.SHUT_WR).  t1 writes to upstream (sock2),
\* t2 to the client (sock1).  Neither socket is closed here.
ForwardEnd(i) ==
  /\ fwd[i] = "running"
  /\ ProxyOnly
  /\ fwd' = [fwd EXCEPT ![i] = "done"]
  /\ shut_wr' = shut_wr \cup {IF i = 1 THEN "upstream" ELSE "client"}
  /\ UNCHANGED <<h_pc, client, upstream, request, resp, joined>>

ForwardEnd1 == ForwardEnd(1)
ForwardEnd2 == ForwardEnd(2)

\* t1.join(timeout=300); t2.join(timeout=300): each returns when its thread
\* has ended or when the timeout expires, whichever is first.
Join ==
  /\ h_pc = "join"
  /\ ProxyOnly
  /\ joined' = joined + 1
  /\ h_pc' = IF joined = 1 THEN "finally" ELSE "join"
  /\ UNCHANGED <<client, upstream, request, resp, fwd, shut_wr>>

\* upstream.send(modified): sent, or raised
SendPlain ==
  /\ h_pc = "send_plain"
  /\ ProxyOnly
  /\ \/ h_pc' = "relay_one_way"
     \/ h_pc' = "finally"
  /\ UNCHANGED <<client, upstream, request, resp, fwd, joined, shut_wr>>

\* relay_one_way(upstream, client_sock): its loop, then src.close(); dst.close()
RelayOneWay ==
  /\ h_pc = "relay_one_way"
  /\ ProxyOnly
  /\ upstream' = "closed"
  /\ client' = "closed"
  /\ h_pc' = "finally"
  /\ UNCHANGED <<request, resp, fwd, joined, shut_wr>>

\* except Exception: pass; finally: client_sock.close()
Finally ==
  /\ h_pc = "finally"
  /\ ProxyOnly
  /\ client' = "closed"
  /\ h_pc' = "returned"
  /\ UNCHANGED <<upstream, request, resp, fwd, joined, shut_wr>>

NextProxy ==
  \/ RecvRequest \/ ParseRequest \/ ConnectUpstream
  \/ SendConnect \/ RecvResponse \/ SendResponse \/ Refuse
  \/ RelayStart \/ ForwardEnd1 \/ ForwardEnd2 \/ Join
  \/ SendPlain \/ RelayOneWay
  \/ Finally

SpecProxy == InitProxy /\ [][NextProxy]_vars

\* ============================================================= claims
IsFlatGrid(g) ==
  g # NoGrid /\ \A r \in 1..Height(g), c \in 1..Width(g) : g[r][c] = g[1][1]
Cells(g) == (1..Height(g)) \X (1..Width(g))
SameShape(g, h) == Height(g) = Height(h) /\ Width(g) = Width(h)

RowStep(g) == IF Height(g) >= 2 THEN g[2][1] - g[1][1] ELSE 0
ColStep(g) == IF Width(g) >= 2 THEN g[1][2] - g[1][1] ELSE 0
IsPlane(g) ==
  g # NoGrid /\ \A p \in Cells(g) :
    g[p[1]][p[2]] = g[1][1] + RowStep(g) * (p[1] - 1) + ColStep(g) * (p[2] - 1)
\* Row 0 is the northern edge and the column index grows eastward: a slope
\* faces north when the ground rises southward (with the row index) only.
Facing(g) ==
  CASE RowStep(g) > 0 /\ ColStep(g) = 0 -> "N"
    [] RowStep(g) = 0 /\ ColStep(g) < 0 -> "E"
    [] RowStep(g) < 0 /\ ColStep(g) = 0 -> "S"
    [] RowStep(g) = 0 /\ ColStep(g) > 0 -> "W"
    [] OTHER -> "none"
CompassDegrees(d) ==
  CASE d = "N" -> 0 [] d = "E" -> 90 [] d = "S" -> 180 [] OTHER -> 270

\* C2: on a plane tilted purely toward one cardinal direction, with a slope of
\* at least 1 degree, compute_aspect returns at every interior cell 0 for
\* north, 90 for east, 180 for south and 270 for west.
C2_CardinalAspect ==
  (aspect # NoGrid /\ IsPlane(dtm) /\ Facing(dtm) # "none") =>
    \A p \in Cells(dtm) :
      ( /\ ~OnBorder(dtm, p[1], p[2])
        /\ Ge(SlopeDeg(grad_x[p[1]][p[2]], grad_y[p[1]][p[2]], 8 * cellsize), Deg(1)) )
      => aspect[p[1]][p[2]] = Deg(CompassDegrees(Facing(dtm)))

\* The weighted sum as written, no mirroring: input[r+dr][c+dc] times
\* kernel[dr+1][dc+1], not-a-number once any neighbour is out of bounds.
UnflippedSum(g, kernel, r, c) ==
  IF \E dr \in -1..1, dc \in -1..1 : ~InGrid(g, r + dr, c + dc) THEN NaN
  ELSE SeqSum([k \in 1..9 |->
         LET dr == ((k - 1) \div 3) - 1
             dc == ((k - 1) % 3) - 1
         IN g[r + dr][c + dc] * kernel[dr + 2][dc + 2]])

\* C3: each gradient grid has the input's shape and holds, at every cell, the
\* un-flipped weighted sum of the cell's 3x3 neighbourhood with the kernel
\* (not-a-number on the outermost ring), for the kernels of the last call:
\* compute_aspect's Zevenbergen-Thorne pair, or the pair compute_slope selected.
C3_GradientIsUnflippedSum ==
  grad_x # NoGrid =>
    LET alg == IF aspect # NoGrid THEN "zevenbergen_thorne"
               ELSE args.slope_algorithm
    IN /\ SameShape(grad_x, dtm) /\ SameShape(grad_y, dtm)
       /\ \A p \in Cells(dtm) :
            /\ grad_x[p[1]][p[2]] = UnflippedSum(dtm, KernelX(alg), p[1], p[2])
            /\ grad_y[p[1]][p[2]] = UnflippedSum(dtm, KernelY(alg), p[1], p[2])

\* The sum over the 8 neighbours of (centre - neighbour)^2.
SquaredDiffs(g, i, j) ==
  SeqSum([k \in 1..9 |->
    LET di == ((k - 1) \div 3) - 1
        dj == ((k - 1) % 3) - 1
    IN (g[i][j] - g[i + di][j + dj]) * (g[i][j] - g[i + di][j + dj])])

\* C4: compute_tri returns a grid of the input's shape (any H and W) whose
\* border ring is 0 whatever the elevations are and whose interior cells hold
\* t = sqrt(sq / n) with 8 * t^2 the sum over the 8 neighbours of
\* (centre - neighbour)^2, so 0 on a flat grid; the input is not modified.
C4_TriBorderZeroInteriorRms ==
  tri # NoGrid =>
    /\ SameShape(tri, dtm)
    /\ dtm = src_band
    /\ \A p \in Cells(dtm) :
         LET t == tri[p[1]][p[2]]
         IN /\ t.n > 0 /\ t.sq >= 0
            /\ IF OnBorder(dtm, p[1], p[2]) THEN t.sq = 0
               ELSE /\ 8 * t.sq = t.n * SquaredDiffs(dtm, p[1], p[2])
                    /\ IsFlatGrid(dtm) => t.sq = 0

\* C4 witness: a 3x3 grid whose corner is raised: the corner's ruggedness is
\* 0 although it differs from its neighbours, the centre's is not.
C4_Witness ==
  /\ tri # NoGrid /\ Height(dtm) = 3 /\ Width(dtm) = 3
  /\ dtm[3][3] # dtm[2][2] /\ dtm[3][3] # dtm[3][2]
  /\ tri[3][3].sq = 0 /\ tri[2][2].sq > 0

\* What each product is to be stored as: 1-band float32 with its nodata, or
\* 3-band uint8 with none.
ExpectedVariant(name) ==
  CASE name = "slope_degrees" ->
         [dtype |-> "float32", count |-> 1, nodata |-> <<-9999>>, bands |-> 1]
    [] name = "aspect_degrees" ->
         [dtype |-> "float32", count |-> 1, nodata |-> <<-1>>, bands |-> 1]
    [] name = "tri" ->
         [dtype |-> "float32", count |-> 1, nodata |-> <<-9999>>, bands |-> 1]
    [] OTHER ->
         [dtype |-> "uint8", count |-> 3, nodata |-> << >>, bands |-> 3]

\* C8: whatever the skip flags and whatever was stored before through the
\* shared profile, every stored product has the band count, data type and
\* nodata of its kind.
C8_ProductVariants ==
  \A name \in DOMAIN stored :
    LET w == stored[name]
    IN [dtype |-> w.profile.dtype, count |-> w.profile.count,
        nodata |-> w.profile.nodata, bands |-> w.bands] = ExpectedVariant(name)

\* C8 witness: a full run: tri was stored after both 3-band products.
C8_Witness ==
  /\ pc = "done"
  /\ DOMAIN stored = {"slope_degrees", "aspect_degrees", "aspect_colorized",
                      "slope_colorized", "tri"}
  /\ stored["tri"].profile.count = 1
  /\ stored["tri"].profile.nodata = <<-9999>>

BadCommandLine ==
  \/ args.slope_algorithm \notin {"zevenbergen_thorne", "horn"}
  \/ args.colorize_slope \notin {"skitour", "climbing"}
  \/ ~args.dtm_exists

\* C9: a run given an unknown slope algorithm, an unknown colorization or a
\* missing input path never loads the grid, never computes anything and never
\* stores a product: it is still parsing or validating, or has exited.
C9_FatalBeforeAnyWork ==
  BadCommandLine =>
    /\ pc \in {"parse_args", "validate", "exit_usage", "exit_missing"}
    /\ dtm = NoGrid /\ grad_x = NoGrid /\ grad_y = NoGrid
    /\ slope = NoGrid /\ aspect = NoGrid /\ tri = NoGrid
    /\ aspect_rgb = NoGrid /\ slope_rgb = NoGrid
    /\ stored = << >>

\* C9 witness: an unknown colorization with everything else in order has
\* ended the run at parse_args.
C9_Witness ==
  /\ pc = "exit_usage"
  /\ args.colorize_slope = "bogus"
  /\ args.slope_algorithm = "horn" /\ args.dtm_exists
  /\ stored = << >>

\* The ranges a value satisfies the bin test of.
MatchedRanges(v, ranges) ==
  {i \in 1..Len(ranges) : InRange(v, ranges[i][1], ranges[i][2])}
SetMin(S) == CHOOSE m \in S : \A n \in S : m <= n

\* C5: under both presets every slope value of [0, 90] degrees, endpoints
\* included, satisfies the test of exactly one bin and gets that bin's colour:
\* none is left at (0,0,0).
C5_SlopeClassificationTotal ==
  (c_pc = "returned" /\ c_kind = "slope" /\ c_array[1][1] \in 0..Deg(90)) =>
    LET m == MatchedRanges(c_array[1][1], SlopeRanges(c_scheme))
    IN /\ Cardinality(m) = 1
       /\ \A i \in m : c_rgb[1][1] = SlopeColors(c_scheme)[i]
       /\ c_rgb[1][1] # Black

\* C6: a slope equal to an interior bin edge gets the colour of the bin that
\* starts there, not of the one that ends there (20 under skitour is yellow),
\* and a cell keeps the colour of the first bin it matched: no later bin
\* overwrites it.
C6_HalfOpenBins ==
  (c_pc = "returned" /\ c_kind = "slope") =>
    LET v == c_array[1][1]
        ranges == SlopeRanges(c_scheme)
        m == MatchedRanges(v, ranges)
    IN /\ \A i \in 2..Len(SlopeColors(c_scheme)) :
            v = Deg(SlopeBins(c_scheme)[i]) =>
              /\ c_rgb[1][1] = SlopeColors(c_scheme)[i]
              /\ c_rgb[1][1] # SlopeColors(c_scheme)[i - 1]
       /\ (c_scheme = "skitour" /\ v = Deg(20)) => c_rgb[1][1] = <<255, 255, 0>>
       /\ m # {} => c_rgb[1][1] = ranges[SetMin(m)][3]

\* C6 witness: 20.0 under skitour came out yellow.
C6_Witness ==
  /\ c_pc = "returned" /\ c_kind = "slope" /\ c_scheme = "skitour"
  /\ c_array[1][1] = Deg(20)
  /\ c_rgb[1][1] = <<255, 255, 0>>

\* N, NE, E, SE, S, SW, W, NW: red, yellow, green, cyan, blue, magenta, white,
\* orange.
CompassColors ==
  << <<255, 0, 0>>, <<255, 255, 0>>, <<0, 255, 0>>, <<0, 255, 255>>,
     <<0, 0, 255>>, <<255, 0, 255>>, <<255, 255, 255>>, <<255, 165, 0>> >>
\* The 45-degree sector centred on a compass point, 1 = N, from the angle in
\* half degrees.
Sector(v) == (((v + 45) % Deg(360)) \div 90) + 1

\* C7: every aspect of [0, 360) matches exactly one of the nine ranges and
\* gets the colour of its 45-degree compass sector (red on both sides of
\* north), and the flat sentinel -1 comes out (128,128,128).
C7_AspectSectors ==
  (c_pc = "returned" /\ c_kind = "aspect") =>
    LET v == c_array[1][1]
    IN /\ v \in 0..(Deg(360) - 1) =>
            /\ Cardinality(MatchedRanges(v, AspectDirections)) = 1
            /\ c_rgb[1][1] = CompassColors[Sector(v)]
       /\ v = FlatSentinel => c_rgb[1][1] = Gray

\* C7 witness: 350 degrees, in the wrap-around range, came out red.
C7_Witness ==
  /\ c_pc = "returned" /\ c_kind = "aspect"
  /\ c_array[1][1] = Deg(350)
  /\ c_rgb[1][1] = <<255, 0, 0>>

\* C10: whenever handle_client has returned, the client socket is closed and
\* the upstream socket it opened, if any, is closed.
C10_SocketsClosedOnReturn ==
  h_pc = "returned" => (client = "closed" /\ upstream \in {"none", "closed"})
====
